---------------------------- MODULE Spec2Model ----------------------------
(***************************************************************************)
(* A model of pystachio-smt's low level algorithms (src/src/algorithms.py) *)
(* and of its dataset simulators (src/pystachio_smt/simulation.py).        *)
(*                                                                         *)
(* Conventions.                                                            *)
(*  - A 2-D numpy array is a sequence of rows; the numpy element img[i,j]  *)
(*    (0-based) is img[i+1][j+1] here, see At.                             *)
(*  - A Euclidean distance sqrt(n), n a natural number, is represented by  *)
(*    its square n.  sqrt is strictly increasing and the doubles sqrt(n)   *)
(*    for the small n that occur are pairwise different, so `<', `<=',     *)
(*    `==' and max on the distances are those of the squares, and          *)
(*    sqrt(n) == 0 exactly when n = 0.                                     *)
(***************************************************************************)
EXTENDS Integers, Sequences, FiniteSets, TLC

VARIABLES
    call,           \* the function called
    pc,             \* where the call stands: "call", ..., "return" or "raise"
    r_max,          \* get_distance_list: its argument
    distance_list,  \* get_distance_list: the list it returned
    img,            \* find_local_maxima, ultimate_erode: the array given
    spot_locations, \* find_local_maxima, ultimate_erode: the list returned
    data,           \* fwhm: the profile given
    fwhm_result,    \* fwhm: what the call ended with
    params,         \* simulate*: the parameters given
    real_spots,     \* simulate*: the Spots of each frame
    n_mols,         \* simulate_stepwise_bleaching: molecules left per spot
    gtruth,         \* simulate_stepwise_bleaching: the copy taken of n_mols
    frame,          \* simulate*: the loop variable of the frame loop
    spot            \* simulate*: the next spot of the loop over the spots

algVars == <<r_max, distance_list, img, spot_locations>>
fwhmVars == <<data, fwhm_result>>
simVars == <<params, real_spots, n_mols, gtruth, frame, spot>>
vars == <<call, pc, algVars, fwhmVars, simVars>>

----------------------------------------------------------------------------
(* Arrays *)

Rows(a) == Len(a)                                   \* a.shape[0]
Cols(a) == IF Len(a) = 0 THEN 0 ELSE Len(a[1])      \* a.shape[1]
At(a, i, j) == a[i + 1][j + 1]                      \* a[i,j]

----------------------------------------------------------------------------
(* get_distance_list *)

\* distance_map[i,j] = np.sqrt((i-r_max)**2 + (j-r_max)**2), as its square
distance_map(r, i, j) == (i - r) * (i - r) + (j - r) * (j - r)

\* the cells (i, j) of the L x L map in the order of the two nested loops
Cell(L, k) == <<((k - 1) \div L), ((k - 1) % L)>>

\* the offsets of the map, in loop order
AllOffsets(r) ==
    LET L == 2 * r + 1
    IN [k \in 1..(L * L) |->
          LET c == Cell(L, k)
          IN <<c[1] - r, c[2] - r, distance_map(r, c[1], c[2])>>]

\* (mutant) keeps `distance < r_max' only
KeptOffsetsStrict(r) == SelectSeq(AllOffsets(r), LAMBDA t : t[3] < r * r)

\* lines 100-104: the offsets kept, in loop order
KeptOffsets(r) == SelectSeq(AllOffsets(r), LAMBDA t : t[3] <= r * r)

\* the elements of s with a key in lo..hi, ascending by key, equal keys in
\* their order in s
RECURSIVE SortRange(_, _, _)
SortRange(s, lo, hi) ==
    IF lo > hi THEN <<>>
    ELSE IF lo = hi THEN SelectSeq(s, LAMBDA t : t[3] = lo)
    ELSE LET mid == (lo + hi) \div 2
         IN SortRange(s, lo, mid) \o SortRange(s, mid + 1, hi)

\* (mutant) no sort at all
SortNot(s) == s

\* line 106: list.sort(key=lambda x: x[2]) is stable: ascending distance,
\* equal distances in their original order.  The keys are naturals.
SortByDistance(s) ==
    LET keys == { s[k][3] : k \in 1..Len(s) }
    IN IF keys = {} THEN s
       ELSE SortRange(s, 0, CHOOSE m \in keys : \A k \in keys : k <= m)

get_distance_list(r) == SortByDistance(KeptOffsets(r))

----------------------------------------------------------------------------
(* find_local_maxima *)

\* (mutant) looks at the four direct neighbours only
IsCrossMax(a, i, j) ==
    /\ At(a, i - 1, j) <= At(a, i, j) /\ At(a, i + 1, j) <= At(a, i, j)
    /\ At(a, i, j - 1) <= At(a, i, j) /\ At(a, i, j + 1) <= At(a, i, j)

\* np.max(img[i-1:i+2, j-1:j+2]) == img[i,j], for an interior (i, j)
IsNeighbourhoodMax(a, i, j) ==
    \A di \in -1..1 : \A dj \in -1..1 : At(a, i + di, j + dj) <= At(a, i, j)

find_local_maxima(a) ==
    LET h == Rows(a) - 2
        w == Cols(a) - 2
    IN IF h <= 0 \/ w <= 0 THEN <<>>
       ELSE LET interior == [k \in 1..(h * w) |->
                               <<1 + ((k - 1) \div w), 1 + ((k - 1) % w)>>]
            IN SelectSeq(interior,
                         LAMBDA p : At(a, p[1], p[2]) # 0
                                    /\ IsNeighbourhoodMax(a, p[1], p[2]))

----------------------------------------------------------------------------
(* ultimate_erode *)

ErodeRadius == 16

ErodeDistanceList == get_distance_list(ErodeRadius)

\* lines 127-135: does the walk of pixel (i, j) stop at list entry k
StopsAt(a, dl, i, j, k) ==
    LET pi == i + dl[k][1]
        pj == j + dl[k][2]
    IN \/ pi < 0 \/ pi >= Rows(a) \/ pj < 0 \/ pj >= Cols(a)
       \/ At(a, pi, pj) = 0

\* the first entry in lo..hi of the list at which the walk stops; 0 if none
RECURSIVE FirstStop(_, _, _, _, _, _)
FirstStop(a, dl, i, j, lo, hi) ==
    IF lo > hi THEN 0
    ELSE IF lo = hi THEN (IF StopsAt(a, dl, i, j, lo) THEN lo ELSE 0)
    ELSE LET mid == (lo + hi) \div 2
             left == FirstStop(a, dl, i, j, lo, mid)
         IN IF left # 0 THEN left ELSE FirstStop(a, dl, i, j, mid + 1, hi)

\* img_dist[i,j] after the loop over the list: 0 when it never stopped
PixelDistance(a, dl, i, j) ==
    IF At(a, i, j) = 0 THEN 0
    ELSE LET k == FirstStop(a, dl, i, j, 1, Len(dl))
         IN IF k = 0 THEN 0 ELSE dl[k][3]

\* lines 121-135: img_dist, filled by the two loops over the pixels; the
\* first j pixels of row i, then the first i rows
RECURSIVE DistRow(_, _, _, _)
DistRow(a, dl, i, j) ==
    IF j = 0 THEN <<>>
    ELSE Append(DistRow(a, dl, i, j - 1), PixelDistance(a, dl, i, j - 1))

RECURSIVE DistRows(_, _, _)
DistRows(a, dl, i) ==
    IF i = 0 THEN <<>>
    ELSE Append(DistRows(a, dl, i - 1), DistRow(a, dl, i - 1, Cols(a)))

ImgDist(a, dl) == DistRows(a, dl, Rows(a))

\* (mutant) without lines 136-138, the early return
erode_no_abort(a, dl) == find_local_maxima(ImgDist(a, dl))

\* lines 121-142, with the distance list of line 120 as dl
erode_with(a, dl) ==
    LET img_dist == ImgDist(a, dl)
    IN IF \E i \in 0..(Rows(a) - 1), j \in 0..(Cols(a) - 1) :
             At(a, i, j) # 0 /\ At(img_dist, i, j) = 0
       THEN <<>>
       ELSE find_local_maxima(img_dist)

ultimate_erode(a) == erode_with(a, ErodeDistanceList)

----------------------------------------------------------------------------
(* fwhm *)

\* A profile is a sequence of naturals, not all zero; data[k] (0-based) is
\* d[k+1].  After `data = data / np.max(data)' the sample k is d[k+1]/m, m
\* the maximum, kept here as that fraction.  x_width is a rational, kept as
\* <<numerator, denominator>> with a positive denominator.

XLen == 256                                  \* x = np.linspace(0, 255, 256)

Sgn(v) == IF v > 0 THEN 1 ELSE IF v < 0 THEN -1 ELSE 0

MaxOf(d) == CHOOSE m \in { d[k] : k \in 1..Len(d) } : \A k \in 1..Len(d) : d[k] <= m
MinOf(d) == CHOOSE m \in { d[k] : k \in 1..Len(d) } : \A k \in 1..Len(d) : d[k] >= m

\* np.argmax, np.argmin: the first index of the maximum, of the minimum
ArgMax(d) == (CHOOSE k \in 1..Len(d) : d[k] = MaxOf(d) /\ \A l \in 1..(k - 1) : d[l] # MaxOf(d)) - 1
ArgMin(d) == (CHOOSE k \in 1..Len(d) : d[k] = MinOf(d) /\ \A l \in 1..(k - 1) : d[l] # MinOf(d)) - 1

\* np.sign(data[k] - lev50): the sign of d[k+1]/m - 1/2
Sign50(d, k) == Sgn(2 * d[k + 1] - MaxOf(d))

\* lines 61-66
CentreIndex(d) == IF Sign50(d, 0) < 0 THEN ArgMax(d) ELSE ArgMin(d)

Rat(n, dn) == IF dn < 0 THEN <<-n, -dn>> ELSE <<n, dn>>
RatSub(p, q) == Rat(p[1] * q[2] - q[1] * p[2], p[2] * q[2])
RatEq(p, q) == p[1] * q[2] = q[1] * p[2]

\* lines 74-75, 83-84: x[i-1] + interp*(x[i]-x[i-1]), with
\* interp = (lev50-data[i-1]) / (data[i]-data[i-1]) and x[k] = k
Crossing(d, i) ==
    LET m == MaxOf(d)
        a == d[i]            \* data[i-1] * m
        b == d[i + 1]        \* data[i] * m
    IN Rat((i - 1) * 2 * (b - a) + (m - 2 * a), 2 * (b - a))

\* the loop of lines 70-72, from i on: the first index at which the sign
\* differs from that of the index before; past the last index, N+1, the read
\* of data[i] raises IndexError
RECURSIVE LeadWalk(_, _)
LeadWalk(d, i) ==
    IF i > Len(d) - 1 THEN i
    ELSE IF Sign50(d, i) = Sign50(d, i - 1) THEN LeadWalk(d, i + 1) ELSE i

\* the loop of lines 77-79, from i on (i <= N): it goes on while the signs
\* agree and i <= N-1
RECURSIVE TrailWalk(_, _)
TrailWalk(d, i) ==
    IF Sign50(d, i) = Sign50(d, i - 1) /\ i <= (Len(d) - 1) - 1
    THEN TrailWalk(d, i + 1) ELSE i

Raise(e) == [raised |-> e]

fwhm(d) ==
    LET N == Len(d) - 1
        centre_index == CentreIndex(d)
        lead_i == LeadWalk(d, 1)
    IN IF centre_index >= XLen THEN Raise("IndexError")         \* line 68
       ELSE IF lead_i > N THEN Raise("IndexError")              \* line 71
       ELSE IF centre_index + 1 > N THEN Raise("IndexError")    \* line 78
       ELSE LET i == TrailWalk(d, centre_index + 1)
            IN [raised |-> "none",
                x_width |-> IF i # N
                            THEN RatSub(Crossing(d, i), Crossing(d, lead_i))
                            ELSE <<0, 1>>,
                extremum_val |-> centre_index]

----------------------------------------------------------------------------
(* simulate, simulate_stepwise_bleaching *)

\* Of a Spots object the model keeps frame, traj_num and spot_intensity; the
\* positions, and the image rendered from them, are left out.  The frame k
\* (0-based) of real_spots is real_spots[k+1], the spot s is index s+1.
\* random.rand() is one of 0, 1/RandRes, ..., (RandRes-1)/RandRes, kept as
\* its numerator u.

RandRes == 2

\* Spots(num_spots): trajectory ids 0..num_spots-1, frame 0, no intensity
Spots(num_spots) ==
    [frame |-> 0,
     traj_num |-> [s \in 1..num_spots |-> s - 1],
     spot_intensity |-> [s \in 1..num_spots |-> 0]]

MaxId(traj_num) ==
    CHOOSE m \in { traj_num[s] : s \in 1..Len(traj_num) } :
        \A s \in 1..Len(traj_num) : traj_num[s] <= m

\* (mutant) bleaches with bleach_time = 0 too
BleachEnabledFromZero(bleach_time) == bleach_time >= 0

\* line 58
BleachEnabled(bleach_time) == bleach_time > 0

\* line 60: random.rand() < 1 / params.bleach_time, for bleach_time > 0
Bleaches(u, bleach_time) == u * bleach_time < RandRes

\* (mutant) one more than the last spot's id
NextTrajNumOfLast(traj_num) == traj_num[Len(traj_num)] + 1

\* line 70: np.max(real_spots[frame].traj_num) + 1
NextTrajNum(traj_num) == MaxId(traj_num) + 1

\* lines 39-49
SimulateSetup ==
    /\ call = "simulate" /\ pc = "call"
    /\ real_spots' = [k \in 1..params.num_frames |-> Spots(params.num_spots)]
    /\ frame' = 1
    /\ pc' = "frames"
    /\ UNCHANGED <<call, params, n_mols, gtruth, spot, algVars, fwhmVars>>

\* lines 52-58: one turn of the frame loop, up to the bleaching
SimulateFrame ==
    /\ call = "simulate" /\ pc = "frames" /\ frame < params.num_frames
    /\ real_spots' = [real_spots EXCEPT
                        ![frame + 1].frame = frame,
                        ![frame + 1].traj_num = real_spots[frame].traj_num]
    /\ IF BleachEnabled(params.bleach_time)
       THEN pc' = "bleach" /\ spot' = 0 /\ frame' = frame
       ELSE pc' = "frames" /\ spot' = spot /\ frame' = frame + 1
    /\ UNCHANGED <<call, params, n_mols, gtruth, algVars, fwhmVars>>

\* lines 59-71: the filter's draw for one spot and, if it bleaches, the
\* loop body for it; after the last spot the frame loop goes on
SimulateBleach ==
    /\ call = "simulate" /\ pc = "bleach"
    /\ \E u \in 0..(RandRes - 1) :
          real_spots' =
              IF Bleaches(u, params.bleach_time)
              THEN [real_spots EXCEPT ![frame + 1].traj_num[spot + 1] =
                                          NextTrajNum(real_spots[frame + 1].traj_num)]
              ELSE real_spots
    /\ IF spot + 1 < params.num_spots
       THEN spot' = spot + 1 /\ pc' = "bleach" /\ frame' = frame
       ELSE spot' = spot + 1 /\ pc' = "frames" /\ frame' = frame + 1
    /\ UNCHANGED <<call, params, n_mols, gtruth, algVars, fwhmVars>>

\* lines 73-104, after the frame loop: the images and the trajectories
SimulateRender ==
    /\ call = "simulate" /\ pc = "frames" /\ frame >= params.num_frames
    /\ pc' = "return"
    /\ UNCHANGED <<call, params, real_spots, n_mols, gtruth, frame, spot,
                   algVars, fwhmVars>>

\* params.num_spot_molecules when no fixed count is configured
None == -1

\* numpy.random.randint(low, high, size): each draw is one of low..high-1,
\* and the call raises ValueError if there is none
randint(low, high) == low..(high - 1)

\* (mutant) every draw made counts, not only the first n
LostOfAll(n, u, p) == Cardinality({ j \in DOMAIN u : u[j] < p })

\* lines 143-145: the molecules a spot of n loses, u[j] being the j-th value
\* random.rand() gives from here on (the loop draws n of them)
Lost(n, u, p) == Cardinality({ j \in 1..n : u[j] < p })

\* lines 110-131
StepwiseSetup ==
    /\ call = "simulate_stepwise_bleaching" /\ pc = "call"
    /\ \/ /\ params.num_spot_molecules # None
          /\ n_mols' = [s \in 1..params.num_spots |-> params.num_spot_molecules]
          /\ pc' = "frames"
       \/ /\ params.num_spot_molecules = None
          /\ randint(1, params.max_spot_molecules) # {}
          /\ n_mols' \in [1..params.num_spots -> randint(1, params.max_spot_molecules)]
          /\ pc' = "frames"
       \/ /\ params.num_spot_molecules = None
          /\ randint(1, params.max_spot_molecules) = {}
          /\ n_mols' = n_mols
          /\ pc' = "raise"
    /\ gtruth' = n_mols'
    /\ real_spots' =
          IF pc' = "raise" THEN real_spots
          ELSE [k \in 1..params.num_frames |->
                  IF k = 1
                  THEN [Spots(params.num_spots) EXCEPT
                          !.spot_intensity =
                              [s \in 1..params.num_spots |-> params.Isingle * n_mols'[s]],
                          !.frame = 1]
                  ELSE Spots(params.num_spots)]
    /\ frame' = 1
    /\ UNCHANGED <<call, params, spot, algVars, fwhmVars>>

\* lines 134-139: one turn of the frame loop, up to the bleaching
StepwiseFrame ==
    /\ call = "simulate_stepwise_bleaching" /\ pc = "frames"
    /\ frame < params.num_frames
    /\ real_spots' = [real_spots EXCEPT
                        ![frame + 1].frame = frame,
                        ![frame + 1].spot_intensity =
                            [s \in 1..params.num_spots |-> params.Isingle * n_mols[s]],
                        ![frame + 1].traj_num = real_spots[frame].traj_num]
    /\ pc' = "bleach" /\ spot' = 0
    /\ UNCHANGED <<call, params, n_mols, gtruth, frame, algVars, fwhmVars>>

\* lines 141-145: the bleaching of one spot; after the last spot the frame
\* loop goes on
StepwiseBleach ==
    /\ call = "simulate_stepwise_bleaching" /\ pc = "bleach"
    /\ \E u \in [1..(n_mols[spot + 1] + 1) -> 0..(RandRes - 1)] :
          n_mols' = [n_mols EXCEPT ![spot + 1] =
                        IF n_mols[spot + 1] > 0
                        THEN n_mols[spot + 1]
                             - Lost(n_mols[spot + 1], u, params.p_bleach_per_frame)
                        ELSE n_mols[spot + 1]]
    /\ IF spot + 1 < params.num_spots
       THEN spot' = spot + 1 /\ pc' = "bleach" /\ frame' = frame
       ELSE spot' = spot + 1 /\ pc' = "frames" /\ frame' = frame + 1
    /\ UNCHANGED <<call, params, real_spots, gtruth, algVars, fwhmVars>>

\* lines 147-168, after the frame loop: the images; gtruth is returned
StepwiseRender ==
    /\ call = "simulate_stepwise_bleaching" /\ pc = "frames"
    /\ frame >= params.num_frames
    /\ pc' = "return"
    /\ UNCHANGED <<call, params, real_spots, n_mols, gtruth, frame, spot,
                   algVars, fwhmVars>>

----------------------------------------------------------------------------
(* What the variables of the functions not called hold *)

NoAlg == r_max = 0 /\ distance_list = <<>> /\ img = <<>> /\ spot_locations = <<>>

NoFwhm == data = <<>> /\ fwhm_result = <<>>

NoSim ==
    /\ params = <<>> /\ real_spots = <<>> /\ n_mols = <<>>
    /\ gtruth = <<>> /\ frame = 0 /\ spot = 0

----------------------------------------------------------------------------
(* Calls of get_distance_list and find_local_maxima *)

MaxRadius == 5      \* radii given to get_distance_list: 0..MaxRadius
MaxRows == 4        \* fields given to find_local_maxima: up to MaxRows rows,
MaxCols == 4        \*   up to MaxCols columns,
MaxBright == 2      \*   at most MaxBright non-zero pixels,
MaxValue == 2       \*   each with a value in 1..MaxValue

\* the h x w array that is zero except at the pixels of f's domain
Field(h, w, f) ==
    [i1 \in 1..h |-> [j1 \in 1..w |->
        IF <<i1 - 1, j1 - 1>> \in DOMAIN f THEN f[<<i1 - 1, j1 - 1>>] ELSE 0]]

Pixels(h, w) == (0..(h - 1)) \X (0..(w - 1))

\* the subsets of S of at most k elements
RECURSIVE SubsetsUpTo(_, _)
SubsetsUpTo(S, k) ==
    IF k = 0 THEN {{}}
    ELSE LET less == SubsetsUpTo(S, k - 1)
         IN less \cup { T \cup {x} : T \in less, x \in S }

\* a is a field of up to MaxRows x MaxCols pixels, at most MaxBright of them
\* non-zero, with a value in 1..MaxValue
IsField(a) ==
    \E h \in 1..MaxRows, w \in 1..MaxCols :
       \E B \in SubsetsUpTo(Pixels(h, w), MaxBright) :
          \E f \in [B -> 1..MaxValue] : a = Field(h, w, f)

GetDistanceList ==
    /\ call = "get_distance_list" /\ pc = "call"
    /\ distance_list' = get_distance_list(r_max)
    /\ pc' = "return"
    /\ UNCHANGED <<call, r_max, img, spot_locations, fwhmVars, simVars>>

FindLocalMaxima ==
    /\ call = "find_local_maxima" /\ pc = "call"
    /\ spot_locations' = find_local_maxima(img)
    /\ pc' = "return"
    /\ UNCHANGED <<call, r_max, distance_list, img, fwhmVars, simVars>>

InitAlg ==
    /\ pc = "call" /\ distance_list = <<>> /\ spot_locations = <<>>
    /\ \/ call = "get_distance_list" /\ r_max \in 0..MaxRadius /\ img = <<>>
       \/ call = "find_local_maxima" /\ r_max = 0 /\ IsField(img)
    /\ NoFwhm /\ NoSim
NextAlg == GetDistanceList \/ FindLocalMaxima
SpecAlg == InitAlg /\ [][NextAlg]_vars

Returned(f) == call = f /\ pc = "return"

\* the integer offsets of the closed disk of radius r
DiskOffsets(r) ==
    { o \in (-r..r) \X (-r..r) : o[1] * o[1] + o[2] * o[2] <= r * r }

\* C1: get_distance_list(r) returns exactly one triple (dx, dy, d) for each
\* integer offset with dx, dy in -r..r and dx^2 + dy^2 <= r^2 and no other
\* triple, each with d the Euclidean distance of (dx, dy) (here: its square
\* dx^2 + dy^2), so every d <= r (here: d <= r^2); the list is ordered
\* non-decreasingly by d and its first element is the zero offset (0, 0, 0).
C1_DistanceListIsSortedDisk ==
    Returned("get_distance_list") =>
        /\ Len(distance_list) = Cardinality(DiskOffsets(r_max))
        /\ { <<distance_list[k][1], distance_list[k][2]>> :
                k \in 1..Len(distance_list) } = DiskOffsets(r_max)
        /\ \A k \in 1..Len(distance_list) :
              /\ distance_list[k][3] = distance_list[k][1] * distance_list[k][1]
                                       + distance_list[k][2] * distance_list[k][2]
              /\ distance_list[k][3] <= r_max * r_max
        /\ \A k \in 1..(Len(distance_list) - 1) :
              distance_list[k][3] <= distance_list[k + 1][3]
        /\ distance_list[1] = <<0, 0, 0>>

\* a call with radius 2 returned the 13 offsets of that disk
C1_Witness ==
    Returned("get_distance_list") /\ r_max = 2 /\ Len(distance_list) = 13

\* the pixel (i, j) of a is off the border, non-zero and not less than any
\* value of its 3x3 neighbourhood
Qualifies(a, i, j) ==
    /\ 1 <= i /\ i <= Rows(a) - 2 /\ 1 <= j /\ j <= Cols(a) - 2
    /\ At(a, i, j) # 0
    /\ \A ni \in {i - 1, i, i + 1}, nj \in {j - 1, j, j + 1} :
          At(a, i, j) >= At(a, ni, nj)

\* (i, j) comes before (k, l) in row-major order
RowMajorBefore(p, q) == p[1] < q[1] \/ (p[1] = q[1] /\ p[2] < q[2])

\* C2: find_local_maxima returns, in row-major order and each at most once,
\* exactly the pixels that are not on the border, are non-zero and are greater
\* than or equal to every value of their 3x3 neighbourhood; so a field that is
\* zero but for one positive non-border pixel yields that pixel alone, and a
\* border pixel is never reported.
C2_LocalMaximaExactlyQualifying ==
    Returned("find_local_maxima") =>
        /\ { spot_locations[k] : k \in 1..Len(spot_locations) }
             = { p \in Pixels(Rows(img), Cols(img)) : Qualifies(img, p[1], p[2]) }
        /\ \A k \in 1..(Len(spot_locations) - 1) :
              RowMajorBefore(spot_locations[k], spot_locations[k + 1])
        /\ \A p \in Pixels(Rows(img), Cols(img)) :
              (/\ At(img, p[1], p[2]) > 0
               /\ \A q \in Pixels(Rows(img), Cols(img)) \ {p} : At(img, q[1], q[2]) = 0
               /\ 1 <= p[1] /\ p[1] <= Rows(img) - 2
               /\ 1 <= p[2] /\ p[2] <= Cols(img) - 2)
              => spot_locations = << p >>

\* a 4x4 field with a larger value diagonally next to a smaller one, and
\* the larger one alone reported
C2_Witness ==
    /\ Returned("find_local_maxima")
    /\ Rows(img) = 4 /\ Cols(img) = 4
    /\ At(img, 1, 1) = 1 /\ At(img, 2, 2) = 2
    /\ spot_locations = << <<2, 2>> >>

----------------------------------------------------------------------------
(* Calls of ultimate_erode *)

MaxSmall == 3       \* small masks: up to MaxSmall x MaxSmall pixels
MaxHoles == 2       \* small and large masks: at most MaxHoles zero pixels
MaxSlack == 1       \* disks: up to MaxSlack pixels more than needed around

\* a is a mask of up to MaxSmall x MaxSmall pixels, all foreground but for
\* at most MaxHoles zero pixels
IsSmallMask(a) ==
    \E h \in 1..MaxSmall, w \in 1..MaxSmall :
       \E Z \in SubsetsUpTo(Pixels(h, w), MaxHoles) :
          a = Field(h, w, [p \in Pixels(h, w) \ Z |-> 1])

\* a is an n x n mask, n = 2*ErodeRadius+1, whose centre pixel alone has the
\* whole search disk inside the mask; all foreground but for at most MaxHoles
\* zero pixels, at a corner, at the centre's right neighbour or further off
HoleSites(n) ==
    LET c == n \div 2
    IN { <<0, 0>>, <<c, c + 1>>, <<c + 5, c - 3>> }

IsLargeMask(a) ==
    LET n == 2 * ErodeRadius + 1
    IN \E Z \in SubsetsUpTo(HoleSites(n), MaxHoles) :
          a = Field(n, n, [p \in Pixels(n, n) \ Z |-> 1])

\* the filled digital disk of radius R centred at (ci, cj) in an h x w mask
DiskMask(h, w, R, ci, cj) ==
    [i1 \in 1..h |-> [j1 \in 1..w |->
        IF (i1 - 1 - ci) * (i1 - 1 - ci) + (j1 - 1 - cj) * (j1 - 1 - cj) <= R * R
        THEN 1 ELSE 0]]

\* a is a disk of a radius R below ErodeRadius, its centre R+ErodeRadius+1
\* pixels, and up to MaxSlack more, from the edges
IsDiskMask(a) ==
    \E R \in 0..(ErodeRadius - 1), s \in 0..MaxSlack :
       a = DiskMask(2 * (R + ErodeRadius + 1) + 1 + s, 2 * (R + ErodeRadius + 1) + 1 + s,
                    R, R + ErodeRadius + 1 + s, R + ErodeRadius + 1)

UltimateErode ==
    /\ call = "ultimate_erode" /\ pc = "call"
    /\ spot_locations' = ultimate_erode(img)
    /\ pc' = "return"
    /\ UNCHANGED <<call, r_max, distance_list, img, fwhmVars, simVars>>

InitErode ==
    /\ call = "ultimate_erode" /\ pc = "call"
    /\ IsSmallMask(img) \/ IsLargeMask(img) \/ IsDiskMask(img)
    /\ r_max = 0 /\ distance_list = <<>> /\ spot_locations = <<>>
    /\ NoFwhm /\ NoSim
NextErode == UltimateErode
SpecErode == InitErode /\ [][NextErode]_vars

\* the pairs (di, dj) of the search disk
SearchDisk == DiskOffsets(ErodeRadius)

InMask(a, i, j) == 0 <= i /\ i < Rows(a) /\ 0 <= j /\ j < Cols(a)

\* the foreground pixel (i, j) has no zero pixel of the mask within the
\* search radius
FarFromZero(a, i, j) ==
    /\ At(a, i, j) # 0
    /\ \A o \in SearchDisk :
          InMask(a, i + o[1], j + o[2]) => At(a, i + o[1], j + o[2]) # 0

\* the foreground pixel (i, j) has neither a zero pixel nor a position
\* outside the mask within the search radius
Deep(a, i, j) ==
    /\ ErodeRadius <= i /\ i <= Rows(a) - 1 - ErodeRadius
    /\ ErodeRadius <= j /\ j <= Cols(a) - 1 - ErodeRadius
    /\ FarFromZero(a, i, j)

\* C3 (as claimed): for every mask, of any size, with a foreground pixel
\* whose nearest zero pixel of the mask lies farther away than the search
\* radius, ultimate_erode returns an empty list.
C3_FarFromZeroGivesEmpty ==
    (/\ Returned("ultimate_erode")
     /\ \E p \in Pixels(Rows(img), Cols(img)) : FarFromZero(img, p[1], p[2]))
    => spot_locations = <<>>

\* C3 (amended): for every mask with a foreground pixel that has neither a
\* zero pixel nor a position outside the mask within the search radius,
\* ultimate_erode returns an empty list.
C3_DeepPixelGivesEmpty ==
    (/\ Returned("ultimate_erode")
     /\ \E p \in Pixels(Rows(img), Cols(img)) : Deep(img, p[1], p[2]))
    => spot_locations = <<>>

\* a mask with zero pixels and a deep foreground pixel, and nothing returned
C3_Witness ==
    /\ Returned("ultimate_erode")
    /\ \E p \in Pixels(Rows(img), Cols(img)) : Deep(img, p[1], p[2])
    /\ \E p \in Pixels(Rows(img), Cols(img)) : At(img, p[1], p[2]) = 0
    /\ spot_locations = <<>>

\* a is the filled digital disk of radius R centred at (ci, cj).  The first
\* four conjuncts follow from the last one; they let an evaluation stop early.
IsFilledDisk(a, R, ci, cj) ==
    /\ InMask(a, ci - R - 1, cj) /\ InMask(a, ci + R + 1, cj)
    /\ InMask(a, ci, cj - R - 1) /\ InMask(a, ci, cj + R + 1)
    /\ At(a, ci - R, cj) # 0 /\ At(a, ci - R - 1, cj) = 0
    /\ At(a, ci + R, cj) # 0 /\ At(a, ci + R + 1, cj) = 0
    /\ \A p \in Pixels(Rows(a), Cols(a)) :
          (At(a, p[1], p[2]) # 0)
          <=> ((p[1] - ci) * (p[1] - ci) + (p[2] - cj) * (p[2] - cj) <= R * R)

\* (ci, cj) is at least m pixels from every edge of a
Margin(a, ci, cj, m) ==
    /\ m <= ci /\ ci <= Rows(a) - 1 - m
    /\ m <= cj /\ cj <= Cols(a) - 1 - m

\* C4: for every radius R with 0 <= R < 16, when the mask is a filled digital
\* disk centred at a pixel (ci, cj) that is at least R + 17 pixels from every
\* edge, ultimate_erode returns exactly one candidate, and it is (ci, cj).
C4_DiskGivesItsCentre ==
    Returned("ultimate_erode") =>
        \A R \in 0..(ErodeRadius - 1) :
          \A ci \in (R + ErodeRadius + 1)..(Rows(img) - 1 - (R + ErodeRadius + 1)) :
            \A cj \in (R + ErodeRadius + 1)..(Cols(img) - 1 - (R + ErodeRadius + 1)) :
              IsFilledDisk(img, R, ci, cj) => spot_locations = << <<ci, cj>> >>

\* the disk of the largest radius, 15, centred at (33, 32), and its centre returned
C4_Witness ==
    /\ Returned("ultimate_erode")
    /\ Rows(img) = 2 * (2 * ErodeRadius) + 2
    /\ IsFilledDisk(img, ErodeRadius - 1, 2 * ErodeRadius + 1, 2 * ErodeRadius)
    /\ Margin(img, 2 * ErodeRadius + 1, 2 * ErodeRadius, 2 * ErodeRadius)
    /\ spot_locations = << <<2 * ErodeRadius + 1, 2 * ErodeRadius>> >>

----------------------------------------------------------------------------
(* Calls of fwhm *)

MaxLen == 4         \* profiles of 2..MaxLen samples,
MaxSample == 2      \*   each in 0..MaxSample, not all zero

\* d is a profile of 2..MaxLen samples in 0..MaxSample, not all zero
IsProfile(d) ==
    /\ \E n \in 2..MaxLen : d \in [1..n -> 0..MaxSample]
    /\ \E k \in 1..Len(d) : d[k] > 0

Fwhm ==
    /\ call = "fwhm" /\ pc = "call"
    /\ fwhm_result' = fwhm(data)
    /\ pc' = IF fwhm(data).raised = "none" THEN "return" ELSE "raise"
    /\ UNCHANGED <<call, data, algVars, simVars>>

InitFwhm ==
    /\ call = "fwhm" /\ pc = "call"
    /\ IsProfile(data) /\ fwhm_result = <<>>
    /\ NoAlg /\ NoSim
NextFwhm == Fwhm
SpecFwhm == InitFwhm /\ [][NextFwhm]_vars

\* the leading half-maximum crossing exists: some sample's sign differs from
\* that of the sample before
LeadingCrossingExists(d) ==
    \E i \in 1..(Len(d) - 1) : Sign50(d, i) # Sign50(d, i - 1)

\* the sign changes the rightward walk can find: at an index after the
\* peak's and before the last one
TrailingChanges(d) ==
    { i \in (CentreIndex(d) + 1)..(Len(d) - 2) : Sign50(d, i) # Sign50(d, i - 1) }

First(S) == CHOOSE i \in S : \A k \in S : i <= k

\* C9: for every profile of at least two samples whose leading half-maximum
\* crossing exists, fwhm returns a pair and does not raise: with no sign
\* change found by the rightward walk before the bound (also with the peak
\* at the last or the second-to-last index) the width is 0, and otherwise
\* it is the trailing crossing minus the leading crossing.
C9_FwhmReturnsDefinedWidth ==
    (call = "fwhm" /\ pc # "call" /\ LeadingCrossingExists(data)) =>
        /\ pc = "return"
        /\ fwhm_result.raised = "none"
        /\ IF TrailingChanges(data) = {}
           THEN RatEq(fwhm_result.x_width, <<0, 1>>)
           ELSE RatEq(fwhm_result.x_width,
                      RatSub(Crossing(data, First(TrailingChanges(data))),
                             Crossing(data, First({ i \in 1..(Len(data) - 1) :
                                 Sign50(data, i) # Sign50(data, i - 1) }))))

----------------------------------------------------------------------------
(* Calls of simulate *)

MaxFrames == 3      \* num_frames in 1..MaxFrames
MaxSpots == 2       \* num_spots in 1..MaxSpots
MaxBleachTime == 2  \* bleach_time in -1..MaxBleachTime

InitSimulate ==
    /\ call = "simulate" /\ pc = "call"
    /\ params \in [num_frames : 1..MaxFrames, num_spots : 1..MaxSpots,
                   bleach_time : -1..MaxBleachTime]
    /\ real_spots = <<>> /\ n_mols = <<>> /\ gtruth = <<>> /\ frame = 0 /\ spot = 0
    /\ NoAlg /\ NoFwhm
NextSimulate == SimulateSetup \/ SimulateFrame \/ SimulateBleach \/ SimulateRender
SpecSimulate == InitSimulate /\ [][NextSimulate]_vars

\* C5: in simulate, when bleach_time <= 0, the trajectory id of every spot
\* slot in every frame f >= 1 is the one the slot had in frame 0, whatever the
\* random draws.
C5_NoBleachKeepsIds ==
    (call = "simulate" /\ pc # "call" /\ params.bleach_time <= 0) =>
        \A f \in 1..(params.num_frames - 1) : \A s \in 1..params.num_spots :
            real_spots[f + 1].traj_num[s] = real_spots[1].traj_num[s]

\* a finished run of three frames and two spots with bleach_time 0
C5_Witness ==
    /\ call = "simulate" /\ pc = "return"
    /\ params.bleach_time = 0 /\ params.num_frames = 3 /\ params.num_spots = 2
    /\ real_spots[3].frame = 2

\* C10: in simulate with bleach_time > 0, a spot that bleaches in frame f
\* gets the id max(ids of frame f at that moment) + 1; so the new id is greater
\* than every id held by any slot in frame f or an earlier frame, and the
\* maximum id of a frame is never below that of the frame before.
C10_BleachedIdIsFresh ==
    [][(call = "simulate" /\ pc = "bleach") =>
         /\ (real_spots'[frame + 1].traj_num[spot + 1]
                # real_spots[frame + 1].traj_num[spot + 1]) =>
              /\ real_spots'[frame + 1].traj_num[spot + 1]
                    = MaxId(real_spots[frame + 1].traj_num) + 1
              /\ \A f \in 0..frame : \A s \in 1..params.num_spots :
                    /\ real_spots'[frame + 1].traj_num[spot + 1]
                          > real_spots[f + 1].traj_num[s]
                    /\ (<<f, s>> # <<frame, spot + 1>>) =>
                          real_spots'[frame + 1].traj_num[spot + 1]
                             > real_spots'[f + 1].traj_num[s]
         /\ \A f \in 1..frame :
               MaxId(real_spots'[f + 1].traj_num) >= MaxId(real_spots'[f].traj_num)
      ]_vars

\* two spots bleached in frame 1, then the first one again in frame 2
C10_Witness ==
    /\ call = "simulate" /\ pc = "return"
    /\ params.num_frames = 3 /\ params.num_spots = 2
    /\ real_spots[2].traj_num = <<2, 3>>
    /\ real_spots[3].traj_num = <<4, 3>>

----------------------------------------------------------------------------
(* Calls of simulate_stepwise_bleaching *)

MaxMolecules == 2   \* num_spot_molecules in 0..MaxMolecules, or None with
                    \*   max_spot_molecules in 1..MaxMolecules

InitStepwise ==
    /\ call = "simulate_stepwise_bleaching" /\ pc = "call"
    /\ \E nf \in 1..MaxFrames, ns \in 1..MaxSpots, p \in 0..RandRes :
         \E m \in [num_spot_molecules : 0..MaxMolecules, max_spot_molecules : {MaxMolecules}]
                  \cup [num_spot_molecules : {None}, max_spot_molecules : 1..MaxMolecules] :
            params = [num_frames |-> nf, num_spots |-> ns,
                      num_spot_molecules |-> m.num_spot_molecules,
                      max_spot_molecules |-> m.max_spot_molecules,
                      p_bleach_per_frame |-> p, Isingle |-> 1]
    /\ real_spots = <<>> /\ n_mols = <<>> /\ gtruth = <<>> /\ frame = 0 /\ spot = 0
    /\ NoAlg /\ NoFwhm
NextStepwise == StepwiseSetup \/ StepwiseFrame \/ StepwiseBleach \/ StepwiseRender
SpecStepwise == InitStepwise /\ [][NextStepwise]_vars

\* C6: in simulate_stepwise_bleaching, whatever the draws, a spot's molecule
\* count after a step is at most its count before and never negative; with
\* p_bleach_per_frame = 0 it stays the initial count; and the ground truth
\* returned is the initial counts, whatever bleached.
C6_CountsOnlyFall ==
    [][(call = "simulate_stepwise_bleaching") =>
         /\ (pc = "call" /\ pc' = "frames") =>
               /\ gtruth' = n_mols'
               /\ \A s \in 1..params.num_spots : n_mols'[s] >= 0
         /\ (pc # "call") =>
               /\ \A s \in 1..params.num_spots :
                     n_mols'[s] <= n_mols[s] /\ n_mols'[s] >= 0
               /\ gtruth' = gtruth
               /\ (params.p_bleach_per_frame = 0) => n_mols' = gtruth'
      ]_vars

\* a finished run in which a spot of two molecules lost both, one after the
\* other, and the ground truth still says two
C6_Witness ==
    /\ call = "simulate_stepwise_bleaching" /\ pc = "return"
    /\ params.num_frames = 3
    /\ gtruth[1] = 2 /\ n_mols[1] = 0
    /\ real_spots[3].spot_intensity[1] = params.Isingle

\* C7: in the sequence of Spots each simulator builds, the record at position
\* k has frame index k, for every k in 0..num_frames-1.
C7_FrameIndexIsPosition ==
    (call \in {"simulate", "simulate_stepwise_bleaching"} /\ pc = "return") =>
        \A k \in 0..(params.num_frames - 1) : real_spots[k + 1].frame = k

\* C8: in simulate_stepwise_bleaching with no fixed count configured and
\* max_spot_molecules >= 1, the draw does not fail, each spot's initial count
\* is in 1..max_spot_molecules, and every value of that range can be drawn.
C8_InitialCountInInclusiveRange ==
    (/\ call = "simulate_stepwise_bleaching" /\ pc # "call"
     /\ params.num_spot_molecules = None /\ params.max_spot_molecules >= 1) =>
        /\ pc # "raise"
        /\ \A s \in 1..params.num_spots : gtruth[s] \in 1..params.max_spot_molecules
        /\ randint(1, params.max_spot_molecules) = 1..params.max_spot_molecules

=============================================================================
